---------------------------- MODULE Spec2Model ----------------------------
(***************************************************************************)
(* Model of quadruped_controller:                                          *)
(*   - kinematics.cpp: leg_jacobian, leg_forward_kinematics and the        *)
(*     QuadrupedKinematics methods built on them;                          *)
(*   - gait_visualizer_node.cpp: main(), i.e. the startup code and the     *)
(*     control loop that publishes one joint command per leg.              *)
(*                                                                         *)
(* Numbers.  Lengths are integers in millimetres (0.077 m = 77).  A joint  *)
(* angle is a point [c, s] with c*c + s*s = 25 on the circle of radius 5,  *)
(* so cos t = c/5 and sin t = s/5 are exact rationals, and the cosine and  *)
(* sine of a sum of two angles are exact in 25ths.  Every value that the   *)
(* kinematics returns is kept multiplied by 125, which makes it an         *)
(* integer: a foot position is in units of 1/125 mm.                       *)
(***************************************************************************)
EXTENDS Integers, Sequences, FiniteSets, TLC

VARIABLES
  \* ---- gait_visualizer_node.cpp: main ----
  pc,                             \* "start", "loop" or "aborted"
  num_joints,                     \* joints/num_joints
  joint_names,                    \* joints/joint_names
  init_joint_positions,           \* joints/init_joint_positions
  Rwb,                            \* body orientation (rotation matrix)
  x,                              \* body position in the world
  error_log,                      \* what ROS_ERROR has logged
  leg_joints_name_map,
  leg_joints_init_positions_map,
  foothold_start_map,
  gait_map,                       \* the gait map of the last cycle
  foothold_final_map,             \* the footholds planned in the last cycle
  foot_traj_map,                  \* the bounds built in the last cycle
  foot_ref,                       \* referenceState() of the last cycle
  marker_legs,                    \* foot_traj_pub: legs of the last cycle
  published,                      \* joint_state_pub: messages of the last cycle
  swung,                          \* history: legs that completed a swing
  \* ---- kinematics.cpp, called on its own ----
  kin_op,                         \* "none", "fk" or "jtc"
  kin_q,                          \* the joint vector passed
  kin_f,                          \* the force vector passed
  kin_out                         \* what the call returned

nodeVars == <<pc, num_joints, joint_names, init_joint_positions, Rwb, x,
              error_log, leg_joints_name_map, leg_joints_init_positions_map,
              foothold_start_map, gait_map, foothold_final_map,
              foot_traj_map, foot_ref, marker_legs, published, swung>>
kinVars == <<kin_op, kin_q, kin_f, kin_out>>
vars == <<nodeVars, kinVars>>

---------------------------------------------------------------------------
(* Vectors and matrices (arma::vec3, arma::mat33)                          *)

VecAdd(a, b) == <<a[1] + b[1], a[2] + b[2], a[3] + b[3]>>
VecSub(a, b) == <<a[1] - b[1], a[2] - b[2], a[3] - b[3]>>
VecScale(k, a) == <<k * a[1], k * a[2], k * a[3]>>
Dot(a, b) == a[1] * b[1] + a[2] * b[2] + a[3] * b[3]
\* m is a tuple of three rows
MatVec(m, v) == <<Dot(m[1], v), Dot(m[2], v), Dot(m[3], v)>>
Transpose(m) == <<<<m[1][1], m[2][1], m[3][1]>>,
                  <<m[1][2], m[2][2], m[3][2]>>,
                  <<m[1][3], m[2][3], m[3][3]>>>>

---------------------------------------------------------------------------
(* Angles: cos and sin in fifths                                           *)

Angle(c, s) == [c |-> c, s |-> s]
Zero == Angle(5, 0)
Cos(t) == t.c                     \* 5 * cos(t)
Sin(t) == t.s                     \* 5 * sin(t)
CosSum(a, b) == a.c * b.c - a.s * b.s    \* 25 * cos(a + b)
SinSum(a, b) == a.s * b.c + a.c * b.s    \* 25 * sin(a + b)
Neg(t) == Angle(t.c, -t.s)        \* the angle -t

---------------------------------------------------------------------------
(* kinematics.cpp                                                          *)

\* QuadrupedKinematics::QuadrupedKinematics, in millimetres
xbh == 196
ybh == 50
zbh == 0
l1 == 77
l2 == 211
l3 == 230

trans_rl == <<-xbh, ybh, zbh>>
trans_fl == <<xbh, ybh, zbh>>
trans_rr == <<-xbh, -ybh, zbh>>
trans_fr == <<xbh, -ybh, zbh>>

left_links_unsigned == <<l1, l2, l3>>
left_links == <<l1, -l2, -l3>>
right_links_unmirrored == <<l1, -l2, -l3>>
right_links == <<-l1, -l2, -l3>>

Legs == {"RL", "FL", "RR", "FR"}

\* link_map_: leg name -> (base to hip, links)
link_map_ ==
  [leg \in Legs |->
     CASE leg = "RL" -> [first |-> trans_rl, second |-> left_links]
       [] leg = "FL" -> [first |-> trans_fl, second |-> left_links]
       [] leg = "RR" -> [first |-> trans_rr, second |-> right_links]
       [] leg = "FR" -> [first |-> trans_fr, second |-> right_links]]

\* leg_jacobian, times 125
leg_jacobian(links, joints) ==
  LET L1 == links[1]
      L2 == links[2]
      L3 == links[3]
      t1 == joints[1]
      t2 == joints[2]
      t3 == joints[3]
  IN  << << 0,
            25 * L2 * Cos(t2) + 5 * L3 * CosSum(t2, t3),
            5 * L3 * CosSum(t2, t3) >>,
         << -25 * L1 * Sin(t1) - 5 * L2 * Cos(t1) * Cos(t2)
               - L3 * Cos(t1) * CosSum(t2, t3),
            (5 * L2 * Sin(t2) + L3 * SinSum(t2, t3)) * Sin(t1),
            L3 * Sin(t1) * SinSum(t2, t3) >>,
         << 25 * L1 * Cos(t1) - 5 * L2 * Sin(t1) * Cos(t2)
               - L3 * Sin(t1) * CosSum(t2, t3),
            -(5 * L2 * Sin(t2) + L3 * SinSum(t2, t3)) * Cos(t1),
            -L3 * SinSum(t2, t3) * Cos(t1) >> >>

\* leg_forward_kinematics, times 125
leg_forward_kinematics(trans_bh, links, joints) ==
  LET L1 == links[1]
      L2 == links[2]
      L3 == links[3]
      t1 == joints[1]
      t2 == joints[2]
      t3 == joints[3]
  IN  << 25 * L2 * Sin(t2) + 5 * L3 * SinSum(t2, t3) + 125 * trans_bh[1],
         25 * L1 * Cos(t1) - 5 * L2 * Sin(t1) * Cos(t2)
            - L3 * Sin(t1) * CosSum(t2, t3) + 125 * trans_bh[2],
         25 * L1 * Sin(t1) + 5 * L2 * Cos(t1) * Cos(t2)
            + L3 * Cos(t1) * CosSum(t2, t3) + 125 * trans_bh[3] >>

\* q.rows(a, b) of arma::vec, zero-based and inclusive
rows(q, a, b) == SubSeq(q, a + 1, b + 1)


\* An arma::vec read at rows 0..11.  rows() is bounds-checked unless the build
\* defines ARMA_NO_DEBUG: a vector shorter than 12 then either throws
\* ("error") or is read past its end, which yields arbitrary values (fill).
NumRows == 12
Reads(v, fill) ==
  IF Len(v) >= NumRows
    THEN {SubSeq(v, 1, NumRows)}
    ELSE {v \o pad : pad \in [1 .. (NumRows - Len(v)) -> fill]}

\* QuadrupedKinematics::forwardKinematics on a vector with rows 0..11:
\* the four columns of ft_p, in the order RL, FL, RR, FR
forwardKinematics(q) ==
  << leg_forward_kinematics(link_map_["RL"].first, link_map_["RL"].second,
                            rows(q, 0, 2)),
     leg_forward_kinematics(link_map_["FL"].first, link_map_["FL"].second,
                            rows(q, 3, 5)),
     leg_forward_kinematics(link_map_["RR"].first, link_map_["RR"].second,
                            rows(q, 6, 8)),
     leg_forward_kinematics(link_map_["FR"].first, link_map_["FR"].second,
                            rows(q, 9, 11)) >>

\* (a variant that applies the first leg's force to every leg)
jacobianTransposeControlFirstForce(q, f) ==
  LET j_rl == leg_jacobian(link_map_["RL"].second, rows(q, 0, 2))
      j_fl == leg_jacobian(link_map_["FL"].second, rows(q, 3, 5))
      j_rr == leg_jacobian(link_map_["RR"].second, rows(q, 6, 8))
      j_fr == leg_jacobian(link_map_["FR"].second, rows(q, 9, 11))
  IN  MatVec(Transpose(j_rl), rows(f, 0, 2))
      \o MatVec(Transpose(j_fl), rows(f, 0, 2))
      \o MatVec(Transpose(j_rr), rows(f, 0, 2))
      \o MatVec(Transpose(j_fr), rows(f, 0, 2))

\* QuadrupedKinematics::jacobianTransposeControl on vectors with rows 0..11:
\* tau, 12 rows, times 125
jacobianTransposeControl(q, f) ==
  LET j_rl == leg_jacobian(link_map_["RL"].second, rows(q, 0, 2))
      j_fl == leg_jacobian(link_map_["FL"].second, rows(q, 3, 5))
      j_rr == leg_jacobian(link_map_["RR"].second, rows(q, 6, 8))
      j_fr == leg_jacobian(link_map_["FR"].second, rows(q, 9, 11))
  IN  MatVec(Transpose(j_rl), rows(f, 0, 2))
      \o MatVec(Transpose(j_fl), rows(f, 3, 5))
      \o MatVec(Transpose(j_rr), rows(f, 6, 8))
      \o MatVec(Transpose(j_fr), rows(f, 9, 11))

---------------------------------------------------------------------------
(* Inputs of the model                                                     *)

\* Vectors and parameter lists have NumRows - Slack .. NumRows + Slack entries
Slack == 1
Lengths == (NumRows - Slack) .. (NumRows + Slack)

\* Joint angles of one leg: all zero, a bent leg, and its mirror image
BentPose == <<Angle(4, 3), Angle(3, 4), Angle(4, -3)>>
MirrorJoints(j) == <<Neg(j[1]), j[2], j[3]>>
LegPoses == {<<Zero, Zero, Zero>>, BentPose, MirrorJoints(BentPose)}
\* Foot forces on one leg (N)
LegForces == {<<0, 0, 0>>, <<10, -20, 30>>}
\* What a read past the end of a vector may yield: two of the possible values
GarbageAngles == {Zero, Angle(0, 5)}
GarbageForces == {0, 7}

\* v cut or extended (with fill) to n entries
Resize(v, n, fill) ==
  [i \in 1 .. n |-> IF i <= Len(v) THEN v[i] ELSE fill]
KinQ12 == {a \o b \o c \o d : a, b, c, d \in LegPoses}
KinF12 == {a \o b \o c \o d : a, b, c, d \in LegForces}
\* The k-th length tried, longest first
KinLength(k) == NumRows + Slack - k

---------------------------------------------------------------------------
(* The kinematics called on its own (SpecKin)                              *)

NodeOff ==
  /\ pc = "off"
  /\ num_joints = 0
  /\ joint_names = <<>>
  /\ init_joint_positions = <<>>
  /\ Rwb = <<>>
  /\ x = <<>>
  /\ error_log = <<>>
  /\ leg_joints_name_map = <<>>
  /\ leg_joints_init_positions_map = <<>>
  /\ foothold_start_map = <<>>
  /\ gait_map = <<>>
  /\ foothold_final_map = <<>>
  /\ foot_traj_map = <<>>
  /\ foot_ref = <<>>
  /\ marker_legs = <<>>
  /\ published = <<>>
  /\ swung = {}

KinIdle ==
  /\ kin_op = "none"
  /\ kin_q = <<>>
  /\ kin_f = <<>>
  /\ kin_out = <<>>

InitKin == NodeOff /\ KinIdle

\* What a call of forwardKinematics(q) can return, for q of any length
forwardKinematicsCall(q) ==
  {[status |-> "ok", value |-> forwardKinematics(r)] :
     r \in Reads(q, GarbageAngles)}
  \cup (IF Len(q) < NumRows THEN {[status |-> "error"]} ELSE {})

CallForwardKinematics ==
  /\ kin_op = "none"
  /\ \E k \in 0 .. 2 * Slack, q12 \in KinQ12 :
       LET q == Resize(q12, KinLength(k), Zero)
       IN  \E out \in forwardKinematicsCall(q) :
             /\ kin_op' = "fk"
             /\ kin_q' = q
             /\ kin_out' = out
  /\ UNCHANGED <<kin_f, nodeVars>>

\* What a call of jacobianTransposeControl(q, f) can return
jacobianTransposeControlCall(q, f) ==
  {[status |-> "ok", value |-> jacobianTransposeControl(r, g)] :
     r \in Reads(q, GarbageAngles), g \in Reads(f, GarbageForces)}
  \cup (IF Len(q) < NumRows \/ Len(f) < NumRows
          THEN {[status |-> "error"]} ELSE {})

CallJacobianTransposeControl ==
  /\ kin_op = "none"
  /\ \E k \in 0 .. 2 * Slack, m \in 0 .. 2 * Slack, q12 \in KinQ12, f12 \in KinF12 :
       LET q == Resize(q12, KinLength(k), Zero)
           f == Resize(f12, KinLength(m), 0)
       IN  \E out \in jacobianTransposeControlCall(q, f) :
             /\ kin_op' = "jtc"
             /\ kin_q' = q
             /\ kin_f' = f
             /\ kin_out' = out
  /\ UNCHANGED nodeVars

NextKin == CallForwardKinematics \/ CallJacobianTransposeControl

SpecKin == InitKin /\ [][NextKin]_vars

---------------------------------------------------------------------------
(* gait_visualizer_node.cpp: configuration read by main                    *)

\* legs/leg_names, in the order of the joint_state topic
leg_names == <<"RL", "FL", "RR", "FR">>
\* The i-th configured joint name
JointName(i) == <<"joint", i>>
\* joints/init_joint_positions of a standing robot: a different triple per leg
StandPose ==
  BentPose \o MirrorJoints(BentPose)
    \o <<Zero, Angle(4, 3), Angle(3, -4)>> \o <<Zero, Angle(3, 4), Angle(0, -5)>>

Identity == <<<<1, 0, 0>>, <<0, 1, 0>>, <<0, 0, 1>>>>
\* a quarter turn about the vertical axis
RotZ90 == <<<<0, -1, 0>>, <<1, 0, 0>>, <<0, 0, 1>>>>
\* robot_state/orientation (as the matrix of the quaternion) and
\* robot_state/position (mm * 125)
BodyPoses ==
  { [R |-> Identity, p |-> <<0, 0, 0>>],
    [R |-> RotZ90, p |-> VecScale(125, <<100, 0, -50>>)] }

\* arma::inv of a 3x3 matrix: the adjugate over the determinant
Det(m) ==
  m[1][1] * (m[2][2] * m[3][3] - m[2][3] * m[3][2])
  - m[1][2] * (m[2][1] * m[3][3] - m[2][3] * m[3][1])
  + m[1][3] * (m[2][1] * m[3][2] - m[2][2] * m[3][1])
Adjugate(m) ==
  << << m[2][2] * m[3][3] - m[2][3] * m[3][2],
        m[1][3] * m[3][2] - m[1][2] * m[3][3],
        m[1][2] * m[2][3] - m[1][3] * m[2][2] >>,
     << m[2][3] * m[3][1] - m[2][1] * m[3][3],
        m[1][1] * m[3][3] - m[1][3] * m[3][1],
        m[1][3] * m[2][1] - m[1][1] * m[2][3] >>,
     << m[2][1] * m[3][2] - m[2][2] * m[3][1],
        m[1][2] * m[3][1] - m[1][1] * m[3][2],
        m[1][1] * m[2][2] - m[1][2] * m[2][1] >> >>
inv(m) == [i \in 1 .. 3 |-> [j \in 1 .. 3 |-> Adjugate(m)[i][j] \div Det(m)]]

\* (num_joints, number of joint names, number of initial positions): the
\* three agree, or one of them differs from the other two, which are 12
ConfigSizes ==
  {<<n, n, n>> : n \in Lengths}
  \cup {<<n, NumRows, NumRows>> : n \in Lengths}
  \cup {<<NumRows, n, NumRows>> : n \in Lengths}
  \cup {<<NumRows, NumRows, n>> : n \in Lengths}

\* The state before main runs: the parameters on the parameter server
Init ==
  /\ pc = "start"
  /\ \E sz \in ConfigSizes :
       /\ num_joints = sz[1]
       /\ joint_names = [i \in 1 .. sz[2] |-> JointName(i)]
       /\ init_joint_positions = Resize(StandPose, sz[3], Zero)
  /\ \E pose \in BodyPoses : Rwb = pose.R /\ x = pose.p
  /\ error_log = <<>>
  /\ leg_joints_name_map = <<>>
  /\ leg_joints_init_positions_map = <<>>
  /\ foothold_start_map = <<>>
  /\ gait_map = <<>>
  /\ foothold_final_map = <<>>
  /\ foot_traj_map = <<>>
  /\ foot_ref = <<>>
  /\ marker_legs = <<>>
  /\ published = <<>>
  /\ swung = {}
  /\ KinIdle

---------------------------------------------------------------------------
(* main, up to the control loop (lines 102-235)                            *)

\* The check of lines 133-143: it logs two errors and goes on
ConfigErrors ==
  IF num_joints # Len(joint_names) \/ num_joints # Len(init_joint_positions)
    THEN << "Invalid joint configuration",
            "Num(joints), Num(joint names), Num(joint initial positions)" >>
    ELSE <<>>

\* std::vector::at(11) throws std::out_of_range on a shorter vector, and
\* nothing catches it
NamesThrow == Len(joint_names) < NumRows
PositionsThrow == Len(init_joint_positions) < NumRows

\* lines 145-158: leg name -> the leg's three joint names
LegJointsNameMap ==
  [leg \in {leg_names[k] : k \in 1 .. 4} |->
     LET k == CHOOSE k \in 1 .. 4 : leg_names[k] = leg
     IN  <<joint_names[3 * k - 2], joint_names[3 * k - 1], joint_names[3 * k]>>]

\* lines 160-177: leg name -> the leg's three initial joint positions
LegJointsInitPositionsMap ==
  [leg \in {leg_names[k] : k \in 1 .. 4} |->
     LET k == CHOOSE k \in 1 .. 4 : leg_names[k] = leg
     IN  << init_joint_positions[3 * k - 2], init_joint_positions[3 * k - 1],
            init_joint_positions[3 * k] >>]

\* lines 218-221: a body-frame point in the world frame
BodyToWorld(p) == VecAdd(MatVec(Rwb, p), x)

\* lines 216-227: the foot start positions in the world frame
FootholdStartMap ==
  LET ft_p_init == forwardKinematics(init_joint_positions)
  IN  [leg \in Legs |->
         CASE leg = "RL" -> BodyToWorld(ft_p_init[1])
           [] leg = "FL" -> BodyToWorld(ft_p_init[2])
           [] leg = "RR" -> BodyToWorld(ft_p_init[3])
           [] leg = "FR" -> BodyToWorld(ft_p_init[4])]

Startup ==
  /\ pc = "start"
  /\ error_log' = ConfigErrors
  /\ IF NamesThrow \/ PositionsThrow
       THEN /\ pc' = "aborted"
            /\ UNCHANGED <<leg_joints_name_map, leg_joints_init_positions_map,
                           foothold_start_map>>
       ELSE /\ pc' = "loop"
            /\ leg_joints_name_map' = LegJointsNameMap
            /\ leg_joints_init_positions_map' = LegJointsInitPositionsMap
            /\ foothold_start_map' = FootholdStartMap
  /\ UNCHANGED <<num_joints, joint_names, init_joint_positions, Rwb, x,
                 gait_map, foothold_final_map, foot_traj_map, foot_ref,
                 marker_legs, published, swung, kinVars>>

---------------------------------------------------------------------------
(* The collaborators of the control loop.  GaitScheduler, FootPlanner,     *)
(* FootTrajectoryManager and legInverseKinematics are not part of the two  *)
(* source files: the loop sees only what they return.                      *)

\* A leg name that the configuration does not know
UnknownLeg == "FX"
\* std::map iterates its keys in the order of std::string
KeyOrder == <<"FL", "FR", "FX", "RL", "RR">>
\* The keys of the gait maps tried: the four legs, three of them, and three
\* of them with an unknown name
KeySets == {Legs, Legs \ {"FR"}, (Legs \ {"FR"}) \cup {UnknownLeg}}
\* gait/gait_offset_phases [RL FL RR FR], in tenths of a cycle
phase_offset == [k \in Legs \cup {UnknownLeg} |-> IF k \in {"FL", "RR"} THEN 5 ELSE 0]

\* A gait map: leg -> (state, phase), from the legs' states and the phase ph
\* of the gait cycle
GaitMap(st, ph) ==
  [k \in DOMAIN st |-> [first |-> st[k], second |-> (ph + phase_offset[k]) % 10]]
LegStates == {"stance", "swing"}
\* The legs of a diagonal move together (a trot)
IsTrot(st) == st["RL"] = st["FR"] /\ st["FL"] = st["RR"]
\* GaitScheduler::schedule: every combination of leg states at phase 0, the
\* trot at phase 5, and two gait maps for each malformed set of keys, in
\* which the unknown leg is in stance
GaitMaps ==
  {GaitMap(st, 0) : st \in [Legs -> LegStates]}
  \cup {GaitMap(st, 5) : st \in {f \in [Legs -> LegStates] : IsTrot(f)}}
  \cup UNION { { GaitMap([k \in K |-> IF k \in sw THEN "swing" ELSE "stance"], 5) :
                   sw \in {{}, {"FL", "RR"}} } :
               K \in KeySets \ {Legs} }

SwingLegs(gm) == {k \in DOMAIN gm : gm[k].first = "swing"}

\* Where a planned foothold lies relative to the leg's start position
Steps == {VecScale(125, <<60, 0, 0>>)}
\* FootPlanner::positions: no foothold, or a foothold for every swing leg
FootholdFinalMaps(gm) ==
  {<<>>} \cup
  { [leg \in SwingLegs(gm) |-> VecAdd(foothold_start_map[leg], step)] :
      step \in Steps }

\* FootTrajectoryManager::referenceState(leg, phase).position, world frame:
\* the leg's start position at phase 0, forward of it and above it later
referenceState(leg, phase) ==
  VecAdd(foothold_start_map[leg], VecScale(125 * phase, <<6, 0, 8>>))

\* QuadrupedKinematics::legInverseKinematics: three joint angles, kept as
\* terms over the leg and the foot position passed
legInverseKinematics(leg, p) ==
  [i \in 1 .. 3 |-> [ik |-> leg, foot |-> p, joint |-> i]]

---------------------------------------------------------------------------
(* main: one iteration of the control loop (lines 237-310)                 *)

\* (a variant that starts a swing where the last one was planned to end)
FootTrajBoundsChained(leg, p_final) ==
  [ p_start |-> IF leg \in DOMAIN foot_traj_map
                  THEN foot_traj_map[leg].p_final
                  ELSE foothold_start_map[leg],
    p_final |-> p_final ]

\* line 264
FootTrajBounds(leg, p_final) ==
  [p_start |-> foothold_start_map[leg], p_final |-> p_final]

\* lines 260-266
FootTrajMap(final_map) ==
  [leg \in DOMAIN final_map |-> FootTrajBounds(leg, final_map[leg])]

\* line 292
WorldToBody(p) == VecSub(MatVec(inv(Rwb), p), x)

\* lines 287-300: the message of a swing leg
SwingMsg(leg, position) ==
  [ name |-> leg_joints_name_map[leg],
    position |-> legInverseKinematics(leg, WorldToBody(position)) ]

\* (a variant that sends every stance leg the first leg's positions)
StanceMsgFirstLeg(leg) ==
  [ name |-> leg_joints_name_map[leg],
    position |-> leg_joints_init_positions_map[leg_names[1]] ]

\* lines 302-308: the message of a stance leg
StanceMsg(leg) ==
  [ name |-> leg_joints_name_map[leg],
    position |-> leg_joints_init_positions_map[leg] ]

\* The keys of a map in iteration order
Keys(m) == SelectSeq(KeyOrder, LAMBDA k : k \in DOMAIN m)

\* leg_joints_name_map.at(leg) throws std::out_of_range for a leg that is
\* not configured: the number of legs published before that
Reached(ks) ==
  IF \E i \in 1 .. Len(ks) : ks[i] \notin DOMAIN leg_joints_name_map
    THEN (CHOOSE i \in 1 .. Len(ks) :
            /\ ks[i] \notin DOMAIN leg_joints_name_map
            /\ \A j \in 1 .. (i - 1) : ks[j] \in DOMAIN leg_joints_name_map) - 1
    ELSE Len(ks)

\* (a variant whose swing branch does not publish)
PublishStanceOnly(gm, refs) ==
  LET ks == SelectSeq(Keys(gm), LAMBDA k : gm[k].first = "stance")
  IN  [i \in 1 .. Reached(ks) |-> StanceMsg(ks[i])]

\* lines 282-309: the messages published, in order
PublishJointStates(gm, refs) ==
  LET ks == Keys(gm)
  IN  [i \in 1 .. Reached(ks) |->
         IF gm[ks[i]].first = "swing"
           THEN SwingMsg(ks[i], refs[ks[i]])
           ELSE StanceMsg(ks[i])]

\* History, not a variable of main: the legs that have completed a swing
\* (they were in swing in the last cycle and are in stance in this one)
Swung(gm) ==
  swung \cup {leg \in DOMAIN gait_map \cap DOMAIN gm :
                gait_map[leg].first = "swing" /\ gm[leg].first = "stance"}

Cycle ==
  /\ pc = "loop"
  /\ \E gm \in GaitMaps :
       \E final_map \in FootholdFinalMaps(gm) :
         LET refs == [leg \in SwingLegs(gm) |->
                        referenceState(leg, gm[leg].second)]
         IN  /\ gait_map' = gm
             /\ foothold_final_map' = final_map
             /\ foot_traj_map' = FootTrajMap(final_map)
             /\ marker_legs' = Keys(final_map)
             /\ foot_ref' = refs
             /\ published' = PublishJointStates(gm, refs)
             /\ pc' = IF Reached(Keys(gm)) < Len(Keys(gm))
                        THEN "aborted" ELSE "loop"
             /\ swung' = Swung(gm)
  /\ UNCHANGED <<num_joints, joint_names, init_joint_positions, Rwb, x,
                 error_log, leg_joints_name_map,
                 leg_joints_init_positions_map, foothold_start_map, kinVars>>

Next == Startup \/ Cycle

Spec == Init /\ [][Next]_vars

---------------------------------------------------------------------------
(* Claims about the kinematics (checked under SpecKin)                     *)

\* C4 (as stated; refuted): forwardKinematics reports a configuration
\* error for every joint vector whose length is not exactly 12, shorter or
\* longer, and returns the four foot positions only when the length is 12.
C4_LengthChecked ==
  kin_op = "fk" => (kin_out.status = "ok" <=> Len(kin_q) = 12)

ZeroVector12 == [i \in 1 .. 12 |-> Zero]
\* (-0.196, 0.127, -0.441) etc. in 1/125 mm
C6_Expected ==
  << VecScale(125, <<-196, 127, -441>>),
     VecScale(125, <<196, 127, -441>>),
     VecScale(125, <<-196, -127, -441>>),
     VecScale(125, <<196, -127, -441>>) >>

\* C6: forwardKinematics of the 12-element zero joint vector is, column by
\* column in the order RL, FL, RR, FR, (-0.196, 0.127, -0.441),
\* (0.196, 0.127, -0.441), (-0.196, -0.127, -0.441), (0.196, -0.127, -0.441).
C6_ZeroPose ==
  (kin_op = "fk" /\ kin_q = ZeroVector12)
    => kin_out = [status |-> "ok", value |-> C6_Expected]

C6_Witness == kin_op = "fk" /\ kin_q = ZeroVector12 /\ kin_out.status = "ok"

\* The three rows of a 12-vector that belong to leg number k (0..3)
LegRows(v, k) == rows(v, 3 * k, 3 * k + 2)
LegAt(k) == <<"RL", "FL", "RR", "FR">>[k + 1]
\* v with the rows of every leg but k replaced by the triple other
OnlyLeg(v, k, other) ==
  [i \in 1 .. 12 |-> IF (i - 1) \div 3 = k THEN v[i] ELSE other[((i - 1) % 3) + 1]]

\* C7: for fixed joint angles the force-to-torque mapping is linear in the
\* force (doubling the force doubles every torque), and the three torques of
\* a leg are that leg's Jacobian transpose applied to that leg's own force:
\* other legs' forces and joint angles do not change them.
C7_Linear ==
  (kin_op = "jtc" /\ Len(kin_q) = 12 /\ Len(kin_f) = 12) =>
    /\ kin_out.status = "ok"
    /\ jacobianTransposeControl(kin_q, [i \in 1 .. 12 |-> 2 * kin_f[i]])
         = [i \in 1 .. 12 |-> 2 * kin_out.value[i]]
    /\ \A k \in 0 .. 3 :
         /\ LegRows(kin_out.value, k)
              = MatVec(Transpose(leg_jacobian(link_map_[LegAt(k)].second,
                                              LegRows(kin_q, k))),
                       LegRows(kin_f, k))
         /\ \A pose \in LegPoses, force \in LegForces :
              LegRows(jacobianTransposeControl(OnlyLeg(kin_q, k, pose),
                                               OnlyLeg(kin_f, k, force)), k)
                = LegRows(kin_out.value, k)

\* a call with a bent leg, a non-zero force on every leg and a non-zero torque
C7_Witness ==
  /\ kin_op = "jtc"
  /\ Len(kin_q) = 12
  /\ Len(kin_f) = 12
  /\ kin_out.status = "ok"
  /\ LegRows(kin_q, 1) = BentPose
  /\ LegRows(kin_q, 0) # BentPose
  /\ \A k \in 0 .. 3 : LegRows(kin_f, k) # <<0, 0, 0>>
  /\ \A i \in 4 .. 6 : kin_out.value[i] # 0

MirrorY(p) == <<p[1], -p[2], p[3]>>
\* (left leg, right leg) at the same fore/aft position, as leg numbers
MirrorPairs == {<<0, 2>>, <<1, 3>>}

\* C8: when the joint angles of a right leg mirror those of the left leg at
\* the same fore/aft position (hip angle negated, the other two equal), the
\* right foot position is the mirror of the left one: y negated, x and z
\* equal.
C8_Symmetry ==
  (kin_op = "fk" /\ Len(kin_q) = 12) =>
    /\ kin_out.status = "ok"
    /\ \A pr \in MirrorPairs :
         LegRows(kin_q, pr[2]) = MirrorJoints(LegRows(kin_q, pr[1]))
           => kin_out.value[pr[2] + 1] = MirrorY(kin_out.value[pr[1] + 1])

\* both pairs mirrored, with a hip angle that is not zero
C8_Witness ==
  /\ kin_op = "fk"
  /\ Len(kin_q) = 12
  /\ kin_out.status = "ok"
  /\ \A pr \in MirrorPairs :
       /\ LegRows(kin_q, pr[2]) = MirrorJoints(LegRows(kin_q, pr[1]))
       /\ Sin(LegRows(kin_q, pr[1])[1]) # 0
       /\ kin_out.value[pr[1] + 1][2] # 0

---------------------------------------------------------------------------
(* Claims about the node (checked under Spec)                              *)

Mismatch ==
  num_joints # Len(joint_names) \/ num_joints # Len(init_joint_positions)

\* C1 (as stated; refuted): whenever num_joints differs from the number of
\* joint names or of initial joint positions, the program rejects the
\* configuration and never enters the control loop: no gait schedule is read
\* and no joint command is published (stated for gait maps that hold the
\* four legs).
C1_MismatchRejected ==
  (Mismatch /\ DOMAIN gait_map \in {{}, Legs})
    => (gait_map = <<>> /\ published = <<>>)

\* The legs of the last gait map in the order in which the loop visits them
VisitOrder ==
  SelectSeq(<<"FL", "FR", "FX", "RL", "RR">>, LAMBDA k : k \in DOMAIN gait_map)
\* The number of a leg in the configured order RL, FL, RR, FR
LegNumber(leg) == CHOOSE k \in 1 .. 4 : <<"RL", "FL", "RR", "FR">>[k] = leg
ExpectedNames(leg) ==
  LET k == LegNumber(leg)
  IN  <<JointName(3 * k - 2), JointName(3 * k - 1), JointName(3 * k)>>
ExpectedInit(leg) ==
  LET k == LegNumber(leg)
  IN  <<StandPose[3 * k - 2], StandPose[3 * k - 1], StandPose[3 * k]>>
CycleDone == pc = "loop" /\ gait_map # <<>>

\* C2: in every control cycle the joint command emitted for a leg in stance
\* is exactly the leg's three initial joint positions, tagged with the leg's
\* three joint names, whatever the other legs do and after any number of
\* cycles; a cycle that completes emits it for every stance leg.
C2_StanceCommand ==
  /\ Len(published) <= Len(VisitOrder)
  /\ CycleDone => Len(published) = Len(VisitOrder)
  /\ \A i \in 1 .. Len(published) :
       gait_map[VisitOrder[i]].first = "stance" =>
         published[i] = [ name |-> ExpectedNames(VisitOrder[i]),
                          position |-> ExpectedInit(VisitOrder[i]) ]

\* a completed cycle, not the first one, with one leg in stance at a
\* position that differs from the first leg's and the others in swing
C2_Witness ==
  /\ CycleDone
  /\ swung # {}
  /\ DOMAIN gait_map = Legs
  /\ gait_map["FL"].first = "stance"
  /\ \A leg \in Legs \ {"FL"} : gait_map[leg].first = "swing"
  /\ published[1].position = ExpectedInit("FL")
  /\ ExpectedInit("FL") # ExpectedInit("RL")

\* C3 (as stated; refuted): when the gait state of a cycle does not contain
\* exactly the four configured legs, the cycle ends in a configuration error
\* and publishes no joint command at all (stated for a node whose own
\* configuration is consistent).
C3_MalformedRejected ==
  (~Mismatch /\ gait_map # <<>> /\ DOMAIN gait_map # Legs)
    => (published = <<>> /\ pc = "aborted")

TimesCommanded(j) ==
  Cardinality({ <<i, n>> \in (1 .. Len(published)) \X (1 .. 3) :
                  published[i].name[n] = JointName(j) })

C9_RoundTrip ==
  (CycleDone /\ ~Mismatch /\ DOMAIN gait_map = Legs) =>
    \A i \in 1 .. Len(published) :
      gait_map[VisitOrder[i]].first = "swing" =>
        VecAdd(MatVec(Rwb, published[i].position[1].foot), x)
          = foot_ref[VisitOrder[i]]

\* The start position of a leg: forward kinematics of the initial joint
\* positions, in the world frame
StartupFoot(leg) ==
  LET k == LegNumber(leg)
      p == leg_forward_kinematics(link_map_[leg].first, link_map_[leg].second,
                                  LegRows(StandPose, k - 1))
  IN  VecAdd(MatVec(Rwb, p), x)

\* C10: foothold_start_map is written at startup only and no control cycle
\* changes it; the trajectory bounds built in a cycle that replans are built
\* for the legs of the planned foothold map and for no other, each from the
\* leg's startup foot position to the newly planned foothold, however many
\* swings the leg has completed.
C10_StartFrozen ==
  /\ pc = "start" => foothold_start_map = <<>>
  /\ (pc = "loop" \/ gait_map # <<>>)
       => foothold_start_map = [leg \in Legs |-> StartupFoot(leg)]
  /\ DOMAIN foot_traj_map = DOMAIN foothold_final_map
  /\ \A leg \in DOMAIN foot_traj_map :
       foot_traj_map[leg] = [ p_start |-> StartupFoot(leg),
                              p_final |-> foothold_final_map[leg] ]

\* a leg that has completed a swing is planned again, next to a leg that is
\* not planned
C10_Witness ==
  /\ CycleDone
  /\ \E leg \in swung :
       /\ leg \in DOMAIN foot_traj_map
       /\ foot_traj_map[leg].p_final # foot_traj_map[leg].p_start
  /\ DOMAIN foot_traj_map # Legs

=============================================================================
